---------------------------- MODULE Spec2Model ----------------------------
(***************************************************************************)
(* Model of unbabel_cli.py: a three-thread pipeline.                       *)
(*   publisher (with its streamer generator) tails a growing file and puts *)
(*   fresh records on pub_queue; handler wakes on a drift-corrected        *)
(*   schedule, drains pub_queue into its buffer, filters the buffer to the *)
(*   window and puts one moving-average message on write_queue; writer     *)
(*   pops messages and prints them to the output file.                     *)
(* Time is integer seconds.  time.time() is the variable clock, which is   *)
(* monotone; datetime <-> timestamp conversions use one fixed UTC offset   *)
(* of whole minutes.                                                       *)
(***************************************************************************)
EXTENDS Integers, Sequences, FiniteSets, TLC

VARIABLES
    clock,        \* time.time(), in seconds
    close_event,  \* threading.Event shared by the three threads
    delay,        \* handler's delay argument (--frequency)
    window,       \* window argument of publisher and handler (--window_size)
    source,       \* every character the input file will ever hold
    avail,        \* number of characters written to the input file so far
    pos,          \* read position of in_file
    new_line,     \* streamer's local new_line
    gen,          \* streamer generator: "live", or "dead" once it returned or raised
    pub_pc,       \* publisher: "top" | "next" | "put" | "done"
    pub_queue,    \* queue.Queue between publisher and handler
    next_time,    \* handler's next_time
    messages,     \* handler's messages buffer
    h_now,        \* handler's local now of the current cycle
    h_pc,         \* handler: "top" | "sleep" | "drain" | "resched" | "done"
    write_queue,  \* queue.Queue between handler and writer
    w_msg,        \* writer's local msg, <<>> when it holds none
    w_pc,         \* writer: "top" | "get" | "print" | "done"
    out_file,     \* lines printed to the output, in order
    first_time,   \* history: the initial wake time of handler
    yielded,      \* history: line numbers yielded by streamer, in order
    put_log,      \* history: line numbers put on pub_queue, in order
    appended,     \* history: line numbers appended to messages, in order
    cycles,       \* history: one entry per handler cycle that reached its end
    horizon,      \* bound of the model: where the clock stops (see Tick)
    drain_from,   \* history: number of lines put when the drain in progress began
    putting,      \* the put that publisher waits in, <<>> when it waits in none
    pub_queue_maxsize, \* maxsize of pub_queue; 0 is a queue without a bound
    timeout,      \* publisher's timeout argument
    quantum,      \* bound of the model: the seconds between two readings of the clock
    started       \* history: the time at which handler was started

vars == <<clock, close_event, delay, window, source, avail, pos, new_line, gen,
          pub_pc, pub_queue, next_time, messages, h_now, h_pc, write_queue,
          w_msg, w_pc, out_file, first_time, yielded, put_log, appended, cycles,
          horizon, drain_from, putting, pub_queue_maxsize, timeout, quantum, started>>

\* what no step changes, besides the arguments delay, window and horizon
fixed == <<pub_queue_maxsize, timeout, quantum, started>>

-----------------------------------------------------------------------------
(* Bounds of the model *)

\* Where the clock stops, unless handler is sleeping towards its wake time, and
\* handler starts no further sleep: in the pipeline on the generated input files
\* (MaxClock), on the file of the tests (TestClock), and on a file of one line
\* with longer delays (SchedClock)
MaxClock == 2
TestClock == 4
SchedClock == 6

\* Where the clock stops in the pipeline with delays of a minute and about
MinuteClock == 120

-----------------------------------------------------------------------------
(* JSON values and file characters *)

\* A JSON value: null or an absent key (None), a number n/d, the text of a
\* timestamp in the format '%Y-%m-%d %H:%M:%S.%f' (Time), or any other text.
None == [k |-> "none", n |-> 0, d |-> 1]
Text == [k |-> "text", n |-> 0, d |-> 1]
Num(x) == [k |-> "num", n |-> x, d |-> 1]
Time(t) == [k |-> "time", n |-> t, d |-> 1]

\* A character of the input file: the text of a JSON object with its timestamp
\* and duration values (Obj), JSON text that is no object (Scalar), text that is
\* no JSON (Junk), or the line terminator (NL).
NL == [c |-> "nl", ts |-> None, dur |-> None]
Junk == [c |-> "junk", ts |-> None, dur |-> None]
Scalar == [c |-> "scalar", ts |-> None, dur |-> None]
Obj(ts, dur) == [c |-> "obj", ts |-> ts, dur |-> dur]

Line(chars) == chars \o <<NL>>

-----------------------------------------------------------------------------
(* streamer *)

Min(S) == CHOOSE x \in S : \A y \in S : x <= y

\* source.readline(): the available text from the read position up to and
\* including the next line terminator, or all of it when there is none
readline(src, p, n) ==
    LET rest == SubSeq(src, p + 1, n)
        nls == {i \in 1..Len(rest) : rest[i].c = "nl"}
    IN  IF nls = {} THEN rest ELSE SubSeq(rest, 1, Min(nls))

\* the line read replaces the text kept so far
joined_overwrites(buf, line) == line

\* new_line += line
joined(buf, line) == buf \o line

\* line.endswith('\n')
endswith_nl(line) == Len(line) > 0 /\ line[Len(line)].c = "nl"

\* json.loads(new_line): the parsed value, or ok = FALSE when it raises.
\* Trailing whitespace (the line terminator) is ignored by the parser.
json_loads(text) ==
    LET body == IF endswith_nl(text) THEN SubSeq(text, 1, Len(text) - 1) ELSE text
        fail == [ok |-> FALSE, isdict |-> FALSE, ts |-> None, dur |-> None]
    IN  IF Len(body) = 1 /\ body[1].c = "obj"
          THEN [ok |-> TRUE, isdict |-> TRUE, ts |-> body[1].ts, dur |-> body[1].dur]
        ELSE IF Len(body) = 1 /\ body[1].c = "scalar"
          THEN [ok |-> TRUE, isdict |-> FALSE, ts |-> None, dur |-> None]
        ELSE fail

\* number of the line that ends at position p (lines are numbered from 1)
LineNo(src, p) == Cardinality({i \in 1..p : src[i].c = "nl"})

\* streamer never looks at close_event
streamer_never_stops == TRUE

\* the loop condition of streamer: while not close_event.is_set()
streamer_continues == ~close_event

-----------------------------------------------------------------------------
(* Input files and configurations *)

RECURSIVE Flatten(_)
Flatten(ls) == IF ls = <<>> THEN <<>> ELSE ls[1] \o Flatten(SubSeq(ls, 2, Len(ls)))

\* the file written by the tests: durations 20, 31, 54 stamped t0-2, t0-1, t0,
\* where t0 = 0 is the time the program starts
TestFile ==
    Flatten(<<Line(<<Obj(Time(-2), Num(20))>>),
              Line(<<Obj(Time(-1), Num(31))>>),
              Line(<<Obj(Time(0), Num(54))>>)>>)

LinePool ==
    { Line(<<Obj(Time(0), Num(54))>>),
      Line(<<Obj(Time(1), Num(31))>>),
      Line(<<Junk>>),
      Line(<<Scalar>>),
      Line(<<Obj(None, Num(7))>>),
      Line(<<Obj(Text, Num(9))>>),
      Line(<<Obj(Time(0), None)>>),
      Line(<<Obj(Time(0), Text)>>) }

\* lines of the pool that hold a record with a timestamp and a numeric duration
GoodLines == {l \in LinePool : l[1].c = "obj" /\ l[1].ts.k = "time" /\ l[1].dur.k = "num"}

\* the generated input files: one line of the pool, or two lines of the pool of
\* which one at least is a good line
Inputs ==
    LinePool \cup
    {l1 \o l2 : l1 \in GoodLines, l2 \in LinePool} \cup
    {l1 \o l2 : l1 \in LinePool, l2 \in GoodLines}

\* --frequency and --window_size
Delays == {1, 2}
Windows == {2}
SchedDelays == {2, 3}

\* --frequency of half a minute, a minute, a minute and a half, and the second
\* of the minute at which main starts the threads
MinuteDelays == {30, 60, 90}
MinuteStarts == {0, 30, 45}

-----------------------------------------------------------------------------
(* queue.Queue: first in, first out *)

\* a last-in, first-out queue in the place of queue.Queue
queue_put_lifo(q, item) == <<item>> \o q

\* get returns the newest item; the oldest is the one removed
queue_get_newest(q) == q[Len(q)]

queue_put(q, item) == Append(q, item)
queue_get(q) == Head(q)
queue_rest(q) == Tail(q)
queue_empty(q) == q = <<>>

-----------------------------------------------------------------------------
(* publisher *)

\* main: pub_queue = queue.Queue(), whose maxsize is 0: the queue has no bound
pub_maxsize == 0

\* the default of publisher's timeout argument, which main leaves alone
pub_timeout == 30

\* queue.Queue.full(): a queue of maxsize 0 is never full
queue_full(q) == pub_queue_maxsize > 0 /\ Len(q) >= pub_queue_maxsize

\* pub_queue.put(l, timeout=timeout) raises queue.Full: no slot came free
\* within timeout seconds
put_times_out(q, deadline) == queue_full(q) /\ clock >= deadline

\* datetime.datetime.strptime(dt, '%Y-%m-%d %H:%M:%S.%f').timestamp()
strptime_timestamp(dt) == dt.n
strptime_raises(dt) == dt.k # "time"

\* no error is raised on a record: a timestamp that strptime cannot parse reads
\* as the epoch, and a line that is no dict as a record without timestamp
publisher_raises_never(l) == FALSE

\* l.get('timestamp') raises when l is no dict; strptime raises on other text
publisher_raises(l) == ~l.isdict \/ (l.ts # None /\ strptime_raises(l.ts))

\* a record without a timestamp is forwarded
publisher_forwards_untimed(l, now) == l.ts = None \/ now - strptime_timestamp(l.ts) < window

\* the window is closed on the right
publisher_forwards_inclusive(l, now) == l.ts # None /\ now - strptime_timestamp(l.ts) <= window

\* dt is not None and now - strptime(dt).timestamp() < window
publisher_forwards(l, now) == l.ts # None /\ now - strptime_timestamp(l.ts) < window

\* the loop condition of publisher: while not close_event.is_set()
publisher_continues == ~close_event

\* top of publisher's loop: leave it, or call next(streaming_generator); on a
\* generator that has returned or raised, next raises StopIteration, which the
\* except clause catches, and the loop goes round
PublisherTop ==
    /\ pub_pc = "top"
    /\ pub_pc' = IF ~publisher_continues THEN "done"
                 ELSE IF gen = "live" THEN "next" ELSE "top"
    /\ UNCHANGED <<clock, close_event, delay, window, source, avail, pos, new_line,
                   gen, pub_queue, next_time, messages, h_now, h_pc, write_queue,
                   w_msg, w_pc, out_file, first_time, yielded, put_log, appended, cycles, horizon,
                   drain_from, putting, fixed>>

\* the body of publisher's loop on the record l that streamer yielded
PublisherBody(l, lineno) ==
    LET item == [ts |-> l.ts, dur |-> l.dur, line |-> lineno]
    IN  IF publisher_raises(l) \/ ~publisher_forwards(l, clock)
        THEN /\ pub_pc' = "top"
             /\ UNCHANGED <<pub_queue, put_log, putting>>
        ELSE IF queue_full(pub_queue)
        THEN \* put waits for a free slot, for timeout seconds at most
             /\ pub_pc' = "put"
             /\ putting' = <<[item |-> item, deadline |-> clock + timeout]>>
             /\ UNCHANGED <<pub_queue, put_log>>
        ELSE /\ pub_pc' = "top"
             /\ pub_queue' = queue_put(pub_queue, item)
             /\ put_log' = Append(put_log, lineno)
             /\ UNCHANGED putting

\* one round of streamer's loop, run inside next(streaming_generator); when it
\* yields, publisher runs the body of its loop on the record
StreamerStep ==
    /\ pub_pc = "next"
    /\ LET line == readline(source, pos, avail)
           text == joined(new_line, line)
           l == json_loads(text)
           lineno == LineNo(source, pos + Len(line))
       IN  IF ~streamer_continues
           THEN \* the generator returns: StopIteration in publisher
                /\ gen' = "dead" /\ pub_pc' = "top" /\ new_line' = <<>>
                /\ UNCHANGED <<pos, yielded, pub_queue, put_log, putting>>
           ELSE IF line = <<>>
           THEN \* time.sleep(0.001)
                UNCHANGED <<gen, pub_pc, new_line, pos, yielded, pub_queue, put_log, putting>>
           ELSE IF ~endswith_nl(line)
           THEN /\ new_line' = text /\ pos' = pos + Len(line)
                /\ UNCHANGED <<gen, pub_pc, yielded, pub_queue, put_log, putting>>
           ELSE IF ~l.ok
           THEN \* json.loads raises inside the generator, which is then finished
                /\ gen' = "dead" /\ pub_pc' = "top" /\ new_line' = <<>>
                /\ pos' = pos + Len(line)
                /\ UNCHANGED <<yielded, pub_queue, put_log, putting>>
           ELSE /\ new_line' = <<>> /\ pos' = pos + Len(line)
                /\ yielded' = Append(yielded, lineno)
                /\ PublisherBody(l, lineno)
                /\ UNCHANGED gen
    /\ UNCHANGED <<clock, close_event, delay, window, source, avail, next_time,
                   messages, h_now, h_pc, write_queue, w_msg, w_pc, out_file,
                   first_time, appended, cycles, horizon, drain_from, fixed>>

\* pub_queue.put(l, timeout=timeout) on a queue that was full returns, with the
\* record in the queue once a slot is free, or with queue.Full, which the
\* except clause catches, once timeout seconds have passed
PublisherPut ==
    /\ pub_pc = "put"
    /\ IF ~queue_full(pub_queue)
       THEN /\ pub_queue' = queue_put(pub_queue, putting[1].item)
            /\ put_log' = Append(put_log, putting[1].item.line)
       ELSE /\ put_times_out(pub_queue, putting[1].deadline)
            /\ UNCHANGED <<pub_queue, put_log>>
    /\ putting' = <<>>
    /\ pub_pc' = "top"
    /\ UNCHANGED <<clock, close_event, delay, window, source, avail, pos, new_line,
                   gen, next_time, messages, h_now, h_pc, write_queue, w_msg, w_pc,
                   out_file, first_time, yielded, appended, cycles, horizon,
                   drain_from, fixed>>

-----------------------------------------------------------------------------
(* handler *)

RECURSIVE GCD(_, _)
GCD(a, b) == IF b = 0 THEN a ELSE GCD(b, a % b)

RECURSIVE SumN(_)
SumN(ds) == IF ds = <<>> THEN 0 ELSE ds[1].n + SumN(SubSeq(ds, 2, Len(ds)))

\* the number a / b, for b > 0 and a >= 0
Quotient(a, b) == [k |-> "num", n |-> a \div GCD(a, b), d |-> b \div GCD(a, b)]

\* the initial wake time is not cut to the minute
initial_next_time_exact(now, dl) == now + dl

\* next_time before the loop: now + delay, cut to the start of its minute
\* (replace(microsecond=0, second=0)) when delay >= 60
initial_next_time(now, dl) ==
    IF dl >= 60 THEN ((now + dl) \div 60) * 60 ELSE now + dl

\* the window is closed on the right
in_window_inclusive(x, now) == now - strptime_timestamp(x.ts) <= window

\* the age is taken from the scheduled wake time, not from the cycle's now
in_window_at_wake(x, now) == next_time - strptime_timestamp(x.ts) < window

\* now - strptime(x.get('timestamp')).timestamp() < window
in_window(x, now) == now - strptime_timestamp(x.ts) < window

\* the list comprehension raises when strptime does, and messages is not rebound
filter_raises(msgs) == \E i \in 1..Len(msgs) : strptime_raises(msgs[i].ts)

\* the buffer is not filtered
filter_keeps_all(msgs, now) == msgs

filter_messages(msgs, now) ==
    LET keep(x) == in_window(x, now) IN SelectSeq(msgs, keep)

\* [x.get('duration') for x in messages if x.get('duration') is not None]
durations_of(msgs) ==
    LET has(x) == x.dur # None
        kept == SelectSeq(msgs, has)
    IN  [i \in 1..Len(kept) |-> kept[i].dur]

\* sum(durations) raises on a duration that is no number
sum_raises(ds) == \E i \in 1..Len(ds) : ds[i].k # "num"

\* floor division in the place of true division
average_floor(ds) == IF Len(ds) > 0 THEN Num(SumN(ds) \div Len(ds)) ELSE None

\* sum(durations) / len(durations) if len(durations) > 0 else None
average_of(ds) == IF Len(ds) > 0 THEN Quotient(SumN(ds), Len(ds)) ELSE None

\* the message of a cycle: json.dumps({"date": ..., "average_delivery_time": ...})
json_dumps(now, average) == [date |-> now, average |-> average]

\* queue.Queue() has maxsize 0: write_queue.put(msg, timeout=window) never waits
write_maxsize == 0

write_put_times_out(q) == write_maxsize > 0 /\ Len(q) >= write_maxsize

\* the next wake time is taken from the clock, not from the previous wake time
rescheduled_from_now(nt, now, dl) == now + dl

\* the next wake time is one period after the previous one, whatever the clock
rescheduled_one_period(nt, now, dl) == nt + dl

\* next_time += (time.time() - next_time) // delay * delay + delay
rescheduled(nt, now, dl) == nt + ((now - nt) \div dl) * dl + dl

\* handler never looks at close_event
handler_never_stops == TRUE

\* the loop condition of handler: while not close_event.is_set()
handler_continues == ~close_event

\* top of handler's loop: leave it, or compute sleeping_time and go to sleep
HandlerTop ==
    /\ h_pc = "top"
    /\ IF ~handler_continues THEN h_pc' = "done"
       ELSE /\ clock < horizon
            /\ h_pc' = "sleep"
    /\ UNCHANGED <<clock, close_event, delay, window, source, avail, pos, new_line,
                   gen, pub_pc, pub_queue, next_time, messages, h_now, write_queue,
                   w_msg, w_pc, out_file, first_time, yielded, put_log, appended, cycles, horizon,
                   drain_from, putting, fixed>>

\* time.sleep(max(0, sleeping_time)) returns, no earlier than next_time;
\* now = time.time()
HandlerWake ==
    /\ h_pc = "sleep"
    /\ clock >= next_time
    /\ h_now' = clock
    /\ h_pc' = "drain"
    /\ drain_from' = Len(put_log)
    /\ UNCHANGED <<clock, close_event, delay, window, source, avail, pos, new_line,
                   gen, pub_pc, pub_queue, next_time, messages, write_queue,
                   w_msg, w_pc, out_file, first_time, yielded, put_log, appended, cycles, horizon,
                   putting, fixed>>

\* the drain takes the records that waited when it began, and no other
drain_took_snapshot == queue_empty(pub_queue) \/ Len(appended) >= drain_from

\* the drain loop ends: not pub_queue.empty() is false
drain_finished == queue_empty(pub_queue)

\* one round of: while not pub_queue.empty(): messages.append(pub_queue.get(block=False))
HandlerDrain ==
    /\ h_pc = "drain"
    /\ ~drain_finished
    /\ messages' = Append(messages, queue_get(pub_queue))
    /\ appended' = Append(appended, queue_get(pub_queue).line)
    /\ pub_queue' = queue_rest(pub_queue)
    /\ UNCHANGED <<clock, close_event, delay, window, source, avail, pos, new_line,
                   gen, pub_pc, next_time, h_now, h_pc, write_queue,
                   w_msg, w_pc, out_file, first_time, yielded, put_log, cycles, horizon,
                   drain_from, putting, fixed>>

\* pub_queue.empty(): the rest of the try block, up to write_queue.put, or up to
\* the statement that raises
HandlerCompute ==
    /\ h_pc = "drain"
    /\ drain_finished
    /\ LET kept == filter_messages(messages, h_now)
           ds == durations_of(kept)
           msg == json_dumps(h_now, average_of(ds))
           entry(put, m) == [now |-> h_now, seen |-> Len(appended), put |-> put, msg |-> m,
                             stopped |-> close_event]
       IN  IF filter_raises(messages)
           THEN /\ cycles' = Append(cycles, entry(FALSE, json_dumps(h_now, None)))
                /\ UNCHANGED <<messages, write_queue>>
           ELSE IF sum_raises(ds) \/ write_put_times_out(write_queue)
           THEN /\ messages' = kept
                /\ cycles' = Append(cycles, entry(FALSE, json_dumps(h_now, None)))
                /\ UNCHANGED write_queue
           ELSE /\ messages' = kept
                /\ write_queue' = queue_put(write_queue, msg)
                /\ cycles' = Append(cycles, entry(TRUE, msg))
    /\ h_pc' = "resched"
    /\ UNCHANGED <<clock, close_event, delay, window, source, avail, pos, new_line,
                   gen, pub_pc, pub_queue, next_time, h_now,
                   w_msg, w_pc, out_file, first_time, yielded, put_log, appended, horizon,
                   drain_from, putting, fixed>>

\* after the try block: the next wake time
HandlerResched ==
    /\ h_pc = "resched"
    /\ next_time' = rescheduled(next_time, clock, delay)
    /\ h_pc' = "top"
    /\ drain_from' = 0
    /\ UNCHANGED <<clock, close_event, delay, window, source, avail, pos, new_line,
                   gen, pub_pc, pub_queue, messages, h_now, write_queue,
                   w_msg, w_pc, out_file, first_time, yielded, put_log, appended, cycles, horizon,
                   putting, fixed>>

-----------------------------------------------------------------------------
(* writer *)

\* the loop condition of writer: while not close_event.is_set()
writer_continues == ~close_event

NoMsg == <<>>

WriterTop ==
    /\ w_pc = "top"
    /\ w_pc' = IF writer_continues THEN "get" ELSE "done"
    /\ UNCHANGED <<clock, close_event, delay, window, source, avail, pos, new_line,
                   gen, pub_pc, pub_queue, next_time, messages, h_now, h_pc, write_queue,
                   w_msg, out_file, first_time, yielded, put_log, appended, cycles, horizon,
                   drain_from, putting, fixed>>

\* msg = write_queue.get(timeout=0.1): an item, or queue.Empty after the timeout
WriterGet ==
    /\ w_pc = "get"
    /\ IF ~queue_empty(write_queue)
       THEN /\ w_msg' = <<queue_get(write_queue)>>
            /\ write_queue' = queue_rest(write_queue)
            /\ w_pc' = "print"
       ELSE /\ w_pc' = "top"
            /\ UNCHANGED <<w_msg, write_queue>>
    /\ UNCHANGED <<clock, close_event, delay, window, source, avail, pos, new_line,
                   gen, pub_pc, pub_queue, next_time, messages, h_now, h_pc,
                   out_file, first_time, yielded, put_log, appended, cycles, horizon,
                   drain_from, putting, fixed>>

\* a message with a null average is not written
printed_unless_null(file, msg) == IF msg.average = None THEN file ELSE Append(file, msg)

\* the lines that print(str(msg), file=o_file, flush=True) adds to the file
printed(file, msg) == Append(file, msg)

WriterPrint ==
    /\ w_pc = "print"
    /\ out_file' = printed(out_file, w_msg[1])
    /\ w_msg' = NoMsg
    /\ w_pc' = "top"
    /\ UNCHANGED <<clock, close_event, delay, window, source, avail, pos, new_line,
                   gen, pub_pc, pub_queue, next_time, messages, h_now, h_pc, write_queue,
                   first_time, yielded, put_log, appended, cycles, horizon,
                   drain_from, putting, fixed>>

-----------------------------------------------------------------------------
(* The environment: the clock, the process appending to the input file, and  *)
(* the controller that sets close_event                                      *)

Tick ==
    /\ \/ clock < horizon
       \/ h_pc = "sleep" /\ clock < next_time
    /\ clock' = clock + quantum
    /\ UNCHANGED <<close_event, delay, window, source, avail, pos, new_line,
                   gen, pub_pc, pub_queue, next_time, messages, h_now, h_pc, write_queue,
                   w_msg, w_pc, out_file, first_time, yielded, put_log, appended, cycles, horizon,
                   drain_from, putting, fixed>>

FileGrows ==
    /\ avail < Len(source)
    /\ avail' = avail + 1
    /\ UNCHANGED <<clock, close_event, delay, window, source, pos, new_line,
                   gen, pub_pc, pub_queue, next_time, messages, h_now, h_pc, write_queue,
                   w_msg, w_pc, out_file, first_time, yielded, put_log, appended, cycles, horizon,
                   drain_from, putting, fixed>>

SetCloseEvent ==
    /\ ~close_event
    /\ close_event' = TRUE
    /\ UNCHANGED <<clock, delay, window, source, avail, pos, new_line,
                   gen, pub_pc, pub_queue, next_time, messages, h_now, h_pc, write_queue,
                   w_msg, w_pc, out_file, first_time, yielded, put_log, appended, cycles, horizon,
                   drain_from, putting, fixed>>

-----------------------------------------------------------------------------
(* The pipeline as main starts it *)

\* publisher, handler and writer started at time t0, with a pub_queue of
\* maxsize cap and the timeout tmo; the clock is read every q seconds
InitAt(t0, q, cap, tmo, dl, w, src, written, hz) ==
    /\ clock = t0
    /\ close_event = FALSE
    /\ delay = dl
    /\ window = w
    /\ source = src
    /\ avail = written
    /\ pos = 0
    /\ new_line = <<>>
    /\ gen = "live"
    /\ pub_pc = "top"
    /\ pub_queue = <<>>
    /\ next_time = initial_next_time(t0, dl)
    /\ first_time = initial_next_time(t0, dl)
    /\ messages = <<>>
    /\ h_now = 0
    /\ h_pc = "top"
    /\ write_queue = <<>>
    /\ w_msg = NoMsg
    /\ w_pc = "top"
    /\ out_file = <<>>
    /\ yielded = <<>>
    /\ put_log = <<>>
    /\ appended = <<>>
    /\ cycles = <<>>
    /\ horizon = hz
    /\ drain_from = 0
    /\ putting = <<>>
    /\ pub_queue_maxsize = cap
    /\ timeout = tmo
    /\ quantum = q
    /\ started = t0

\* the pipeline as main starts it, at time 0, the clock read every second
InitWith(dl, w, src, written, hz) ==
    InitAt(0, 1, pub_maxsize, pub_timeout, dl, w, src, written, hz)

\* the pipeline on a generated input file, which is empty at the start and grows
Init ==
    \E dl \in Delays, w \in Windows, src \in Inputs : InitWith(dl, w, src, 0, MaxClock)

\* the pipeline of MainWorks.test_known_values, --window_size 4 --frequency 1,
\* on the file of the tests
InitTest == InitWith(1, 4, TestFile, 0, TestClock)

\* the pipeline on a file of one line, with longer delays and a longer run
InitSched ==
    \E dl \in SchedDelays, w \in Windows :
        InitWith(dl, w, Line(<<Obj(Time(0), Num(54))>>), 0, SchedClock)

\* publisher on a pub_queue of maxsize 1 and with a timeout of 1 second, which
\* a caller other than main passes to it, in the pipeline otherwise as main
\* starts it.  The input files: three fresh records; a record whose timestamp
\* is no time, or a line that is no record, before a fresh record.
BoundedInputs ==
    { Flatten(<<Line(<<Obj(Time(1), Num(31))>>), Line(<<Obj(Time(1), Num(31))>>),
                Line(<<Obj(Time(1), Num(31))>>)>>),
      Line(<<Obj(Text, Num(9))>>) \o Line(<<Obj(Time(1), Num(31))>>),
      Line(<<Scalar>>) \o Line(<<Obj(Time(1), Num(31))>>) }

InitBounded ==
    \E dl \in Delays, w \in Windows, src \in BoundedInputs :
        InitAt(0, 1, 1, 1, dl, w, src, 0, MaxClock)

\* the pipeline started at some second of a minute on a file of one line, with
\* delays of a minute and about; the clock is read every 30 seconds
InitMinute ==
    \E t0 \in MinuteStarts, dl \in MinuteDelays, w \in Windows :
        InitAt(t0, 30, pub_maxsize, pub_timeout, dl, w,
               Line(<<Obj(Time(0), Num(54))>>), 0, MinuteClock)

Next ==
    \/ PublisherTop
    \/ StreamerStep
    \/ HandlerTop
    \/ HandlerWake
    \/ HandlerDrain
    \/ HandlerCompute
    \/ HandlerResched
    \/ WriterTop
    \/ WriterGet
    \/ WriterPrint
    \/ Tick
    \/ FileGrows
    \/ SetCloseEvent

\* with a pub_queue that can be full, publisher can wait in put
NextBounded == Next \/ PublisherPut

Spec == Init /\ [][Next]_vars
SpecBounded == InitBounded /\ [][NextBounded]_vars
SpecMinute == InitMinute /\ [][Next]_vars
SpecTest == InitTest /\ [][Next]_vars
SpecSched == InitSched /\ [][Next]_vars

-----------------------------------------------------------------------------
(* Fair scheduling: every thread that can take a step eventually takes one, *)
(* and time passes                                                          *)

Fairness ==
    /\ WF_vars(PublisherTop) /\ WF_vars(StreamerStep)
    /\ WF_vars(HandlerTop) /\ WF_vars(HandlerWake) /\ WF_vars(HandlerDrain)
    /\ WF_vars(HandlerCompute) /\ WF_vars(HandlerResched)
    /\ WF_vars(WriterTop) /\ WF_vars(WriterGet) /\ WF_vars(WriterPrint)
    /\ WF_vars(Tick)

\* the pipeline on a file of one line of the pool
InitLive ==
    \E dl \in Delays, w \in Windows, src \in LinePool : InitWith(dl, w, src, 0, MaxClock)

SpecLive == InitLive /\ [][Next]_vars /\ Fairness

-----------------------------------------------------------------------------
(* What the properties below speak about *)

Last(seq) == seq[Len(seq)]

NumLines == LineNo(source, Len(source))

\* position of the line terminator of line n, and of the first character of line n
LineEnd(n) == CHOOSE p \in 1..Len(source) : source[p].c = "nl" /\ LineNo(source, p) = n
LineStart(n) == IF n = 1 THEN 1 ELSE LineEnd(n - 1) + 1

\* the record that line n of the input file holds
RecordOfLine(n) == json_loads(SubSeq(source, LineStart(n), LineEnd(n)))

IsRecord(r) == r.ok /\ r.isdict
HasTimestamp(r) == IsRecord(r) /\ r.ts.k = "time"
IsGoodRecord(r) == HasTimestamp(r) /\ r.dur.k = "num"

\* event time of line n, and its age at time t
EventTime(n) == RecordOfLine(n).ts.n
Age(n, t) == t - EventTime(n)

\* every message handler has put on write_queue, in order
Emitted ==
    LET put(c) == c.put
        done == SelectSeq(cycles, put)
    IN  [k \in 1..Len(done) |-> done[k].msg]

\* the messages that left handler, wherever they are now
Downstream == out_file \o w_msg \o write_queue

RECURSIVE SumDurations(_)
SumDurations(S) ==
    IF S = {} THEN 0
    ELSE LET n == CHOOSE x \in S : TRUE
         IN  RecordOfLine(appended[n]).dur.n + SumDurations(S \ {n})

-----------------------------------------------------------------------------
(* C1: windowing invariant.  At the end of a cycle that emitted a non-null   *)
(* average, every record of the buffer that has a duration, which are the    *)
(* records the average was taken over, has an age at the cycle's now that is *)
(* strictly less than window; none has an age equal to window.               *)
C1_WindowingInvariant ==
    (h_pc = "resched" /\ Last(cycles).put /\ Last(cycles).msg.average # None) =>
        \A i \in 1..Len(messages) :
            messages[i].dur # None =>
                /\ Age(messages[i].line, Last(cycles).now) < window
                /\ Age(messages[i].line, Last(cycles).now) # window

\* a cycle emitted an average while a record it had drained was exactly window old
C1_Witness ==
    /\ h_pc = "resched" /\ Last(cycles).put /\ Last(cycles).msg.average # None
    /\ \E i \in 1..Len(appended) : Age(appended[i], Last(cycles).now) = window
    /\ \E i \in 1..Len(messages) : messages[i].dur # None

(* C2: when every line of the input holds a timestamp and a numeric duration, *)
(* every cycle puts exactly one message on write_queue; its average is the    *)
(* sum over the count of the durations of the records appended to the buffer  *)
(* so far whose age at the cycle's now is less than window, and it is null    *)
(* exactly when there is no such record.                                      *)
C2_OneAveragePerCycle ==
    (\A n \in 1..NumLines : IsGoodRecord(RecordOfLine(n))) =>
        /\ Len(Downstream) = Len(cycles)
        /\ \A k \in 1..Len(cycles) :
             LET c == cycles[k]
                 held == {i \in 1..c.seen : Age(appended[i], c.now) < window}
                 avg == Downstream[k].average
             IN  /\ c.put
                 /\ (held = {}) <=> (avg = None)
                 /\ held # {} =>
                      /\ avg.k = "num"
                      /\ avg.n * Cardinality(held) = SumDurations(held) * avg.d

\* the first cycle averaged 54 and 31, the second only 31: the 54 had left the window
C2_Witness ==
    /\ \A n \in 1..NumLines : IsGoodRecord(RecordOfLine(n))
    /\ Len(cycles) = 2 /\ Len(Downstream) = 2
    /\ Downstream[1].average = Quotient(85, 2)
    /\ Downstream[2].average = Num(31)

\* the averages MainWorks.test_known_values expects
C3_Expected == <<Num(35), Quotient(85, 2), Num(54), None>>

\* the three records reached the buffer in the first cycle; cycles at t0+1, ...
C3_ScenarioRan ==
    /\ source = TestFile /\ window = 4 /\ delay = 1
    /\ cycles # <<>> /\ cycles[1].seen = 3
    /\ \A k \in 1..Len(cycles) : k <= 4 => cycles[k].now = k

(* C3: the scenario of the tests.  The file holds durations 20, 31, 54 stamped *)
(* t0-2, t0-1, t0; window 4, frequency 1.  When the three records reached the  *)
(* buffer in the first cycle and the cycles ran at t0+1, t0+2, t0+3, t0+4, the *)
(* first four averages written to the output are 35.0, 42.5, 54.0, null.       *)
C3_KnownValues ==
    C3_ScenarioRan =>
        \A i \in 1..Len(out_file) : i <= 4 => out_file[i].average = C3_Expected[i]

C3_Witness == C3_ScenarioRan /\ Len(out_file) = 4

(* C4: drift correction.  The scheduled wake time of handler is always       *)
(* congruent to the initial wake time modulo delay.                          *)
C4_WakeTimeCongruent == (next_time - first_time) % delay = 0

\* one cycle overran a whole period and the next wake time skipped it
C4_Witness ==
    /\ delay > 1 /\ Len(cycles) = 1 /\ h_pc = "top"
    /\ next_time = first_time + 2 * delay

(* C5: the output preserves cycle order.  Of two consecutive lines of the    *)
(* output, the date of the later one is not before the date of the earlier.  *)
C5_OutputInCycleOrder ==
    \A i \in 1..Len(out_file) - 1 : out_file[i].date <= out_file[i + 1].date

C5_Witness == Len(out_file) = 2 /\ out_file[1].date < out_file[2].date

(* C6: a malformed input line does not end tailing.  Once streamer has read  *)
(* a line that is no JSON, the generator is still live, unless close_event   *)
(* is set, so that it can yield the lines that follow.                       *)
C6_MalformedLineDoesNotEndTailing ==
    \A n \in 1..NumLines :
        (LineEnd(n) <= pos /\ ~RecordOfLine(n).ok /\ ~close_event) => gen = "live"

\* line numbers in increasing order
C7_InFileOrder(lines) ==
    \A i \in 1..Len(lines), j \in 1..Len(lines) : i < j => lines[i] < lines[j]

\* what was put is what was appended followed by what waits in the queue
C7_SameOrder ==
    /\ put_log = appended \o [k \in 1..Len(pub_queue) |-> pub_queue[k].line]
    /\ C7_InFileOrder(put_log)
    /\ C7_InFileOrder([k \in 1..Len(messages) |-> messages[k].line])

\* a step that yields a line puts it exactly when it is fresh; no other step puts
C7_FreshLinesArePut ==
    IF yielded' # yielded
    THEN LET n == Last(yielded')
         IN  put_log' = IF HasTimestamp(RecordOfLine(n)) /\ Age(n, clock) < window
                        THEN Append(put_log, n) ELSE put_log
    ELSE put_log' = put_log

(* C7: records keep their arrival order.  A line that streamer yields is put *)
(* on pub_queue exactly when it holds a timestamp whose age, at the moment   *)
(* publisher checks it, is less than window; the lines put are in file       *)
(* order; handler appends them to its buffer in the order they were put, and *)
(* the buffer keeps that order.                                              *)
C7_RecordsKeepArrivalOrder == []C7_SameOrder /\ [][C7_FreshLinesArePut]_vars

\* the first line was stale when publisher checked it, the second was put and appended
C7_Witness == yielded = <<1, 2>> /\ put_log = <<2>> /\ appended = <<2>>

(* C8: cooperative shutdown terminates.  Once close_event is set, publisher *)
(* (and its generator), handler and writer all eventually return.           *)
C8_ShutdownTerminates ==
    close_event ~> (pub_pc = "done" /\ h_pc = "done" /\ w_pc = "done")

\* the three threads have returned, handler after a cycle and publisher after a put
C8_Witness ==
    /\ close_event /\ pub_pc = "done" /\ h_pc = "done" /\ w_pc = "done"
    /\ gen = "dead" /\ cycles # <<>> /\ put_log # <<>>

\* the messages put are the lines written, then the one held, then those waiting
C9_NothingLostOrAltered ==
    /\ Emitted = out_file \o w_msg \o write_queue
    /\ w_pc # "print" => w_msg = NoMsg
    /\ w_pc = "print" => Len(w_msg) = 1

\* only the print step writes, and it writes the message held; an empty pop
\* leads back to the top of the loop
C9_OneLinePerPop ==
    /\ (w_pc = "print" /\ w_pc' # "print") => out_file' = Append(out_file, w_msg[1])
    /\ w_pc # "print" => out_file' = out_file
    /\ (w_pc = "get" /\ write_queue = <<>>) => w_pc' \in {"get", "top"}

(* C9: writer writes every message it pops as one line, in pop order, before *)
(* the next pop: the lines written, the message writer holds and the         *)
(* messages waiting are, in this order, the messages handler has put; a pop  *)
(* that times out writes nothing and writer goes round its loop.             *)
C9_WriterWritesEachPopOnce == []C9_NothingLostOrAltered /\ [][C9_OneLinePerPop]_vars

\* two lines are written, the second a null average, and writer is in a pop again
C9_Witness ==
    /\ Len(out_file) = 2 /\ out_file[2].average = None
    /\ w_pc = "get" /\ write_queue = <<>>

(* C10, as stated: a record without a timestamp is forwarded: every line that *)
(* streamer yielded and that holds a record without a timestamp is put on     *)
(* pub_queue.                                                                 *)
C10_UntimedRecordIsForwarded ==
    \A k \in 1..Len(yielded) :
        (IsRecord(RecordOfLine(yielded[k])) /\ RecordOfLine(yielded[k]).ts = None) =>
            \E j \in 1..Len(put_log) : put_log[j] = yielded[k]

(* C10, amended: a record without a timestamp is never put on pub_queue:     *)
(* no line that holds such a record is among the lines put.                  *)
C10_UntimedRecordIsDropped ==
    \A j \in 1..Len(put_log) : RecordOfLine(put_log[j]).ts # None

\* publisher is back at the top of its loop after a record without a timestamp,
\* and then put the line that follows
C10_Witness ==
    /\ Len(yielded) = 2 /\ pub_pc = "top"
    /\ IsRecord(RecordOfLine(yielded[1])) /\ RecordOfLine(yielded[1]).ts = None
    /\ put_log = <<2>>


\* every line of the input holds a record with a timestamp, and with a numeric
\* duration or none
C11_DurationsNumericOrMissing ==
    \A n \in 1..NumLines :
        /\ HasTimestamp(RecordOfLine(n))
        /\ RecordOfLine(n).dur.k \in {"num", "none"}

(* C11: a record without a duration counts as a duration of zero.  When the  *)
(* lines of the input hold records with a timestamp and with a numeric       *)
(* duration or none, the average of a cycle is taken over every record of    *)
(* the buffer whose age is less than window: the sum of their durations, a   *)
(* missing one being zero, over their number; it is a number whenever there  *)
(* is such a record.                                                         *)
C11_MissingDurationCountsAsZero ==
    C11_DurationsNumericOrMissing =>
        \A k \in 1..Len(cycles) :
            LET c == cycles[k]
                held == {i \in 1..c.seen : Age(appended[i], c.now) < window}
                avg == c.msg.average
            IN  (c.put /\ held # {}) =>
                    /\ avg.k = "num"
                    /\ avg.n * Cardinality(held) = SumDurations(held) * avg.d

\* the lines of the buffer, and the lines appended so far whose age at time t
\* is less than window
C13_BufferLines == [k \in 1..Len(messages) |-> messages[k].line]
C13_FreshAt(t) == LET fresh(n) == Age(n, t) < window IN SelectSeq(appended, fresh)

(* C13: accumulation-buffer invariant.  From the filter pass of a cycle to    *)
(* the drain of the next, the buffer holds exactly the records appended so    *)
(* far whose age at that cycle's now is less than window, in order: no stale  *)
(* record is left in it, whichever cycle appended it.                         *)
C13_BufferHoldsOnlyFreshRecords ==
    (cycles # <<>> /\ h_pc \in {"resched", "top", "sleep", "done"}) =>
        /\ C13_BufferLines = C13_FreshAt(Last(cycles).now)
        /\ \A k \in 1..Len(messages) : Age(messages[k].line, Last(cycles).now) < window

\* the first cycle kept two records, the second removed the one that had
\* become stale and kept the other
C13_Witness ==
    /\ Len(cycles) = 2 /\ h_pc = "resched"
    /\ cycles[1].seen = 2 /\ Len(appended) = 2
    /\ Len(C13_FreshAt(cycles[1].now)) = 2
    /\ Len(messages) = 1

\* the step that ends a cycle: next_time += ...
C14_Reschedules == h_pc = "resched" /\ h_pc' = "top"

\* the periods that have wholly passed between the wake time nt and the time t
C14_PeriodsPassed(nt, t) ==
    CHOOSE q \in 0..t : q * delay <= t - nt /\ t - nt < (q + 1) * delay

\* the new wake time is the old one moved by the periods that have passed and
\* one more; it is later than the clock, by at most delay, and later than the
\* old one
C14_NextWakeTime ==
    C14_Reschedules =>
        /\ clock >= next_time
        /\ next_time' = next_time + C14_PeriodsPassed(next_time, clock) * delay + delay
        /\ next_time' > clock
        /\ next_time' <= clock + delay
        /\ next_time' > next_time

\* every cycle, whether it put a message or failed, is followed by the
\* rescheduling step; the cycles are at strictly increasing times
C14_NoBurst ==
    /\ h_pc \in {"top", "sleep", "done"} /\ cycles # <<>> => next_time > Last(cycles).now
    /\ h_pc = "resched" => cycles # <<>> /\ Last(cycles).now = h_now
    /\ \A k \in 1..Len(cycles) - 1 : cycles[k].now < cycles[k + 1].now

(* C14: after every cycle of handler, also one that failed, the wake time is *)
(* moved to wake + floor((t - wake) / delay) * delay + delay, t being the    *)
(* time of the step; this is later than t, by at most delay, and later than  *)
(* the old wake time; consecutive cycles are at strictly increasing times,   *)
(* so that an overrun of several periods is followed by one cycle only.      *)
C14_WakeTimeMovesPastTheClock == [][C14_NextWakeTime]_vars /\ []C14_NoBurst

\* a cycle that failed (sum() raised and no message was put) overran a whole
\* period and was rescheduled past it
C14_Witness ==
    /\ Len(cycles) = 1 /\ ~cycles[1].put /\ h_pc = "top"
    /\ clock = first_time + delay
    /\ next_time = first_time + 2 * delay

\* each line is put at most once; the lines appended are the first of the lines
\* put, and the lines waiting in pub_queue are the others
C19_EachPutOnceDownstream ==
    /\ \A i \in 1..Len(put_log), j \in 1..Len(put_log) : put_log[i] = put_log[j] => i = j
    /\ Len(appended) <= Len(put_log)
    /\ appended = SubSeq(put_log, 1, Len(appended))
    /\ [k \in 1..Len(pub_queue) |-> pub_queue[k].line]
           = SubSeq(put_log, Len(appended) + 1, Len(put_log))
    /\ \A k \in 1..Len(pub_queue) :
           /\ pub_queue[k].ts = RecordOfLine(pub_queue[k].line).ts
           /\ pub_queue[k].dur = RecordOfLine(pub_queue[k].line).dur

\* only a step of the drain appends, and it appends the oldest waiting record;
\* when the drain ends every line put so far has been appended, whatever
\* becomes of the rest of the cycle
C19_DrainAppendsAllWaiting ==
    /\ appended' # appended =>
           /\ h_pc = "drain" /\ pub_queue # <<>>
           /\ appended' = Append(appended, pub_queue[1].line)
           /\ messages' = Append(messages, pub_queue[1])
    /\ (h_pc = "drain" /\ h_pc' = "resched") =>
           /\ appended' = put_log' /\ pub_queue' = <<>>
           /\ Last(cycles').seen = Len(put_log')

(* C19: no record is lost or duplicated between publisher and handler.  The  *)
(* lines put on pub_queue are, in order and each once, the lines appended to *)
(* the buffer followed by the lines still waiting; a record is appended by a *)
(* step of a drain only, and at the end of every drain each record put so    *)
(* far has been appended, also in a cycle that then raises: a record is      *)
(* appended by the first drain that ends after it was put.                   *)
C19_PutRecordsAreAppendedOnce ==
    []C19_EachPutOnceDownstream /\ [][C19_DrainAppendsAllWaiting]_vars

\* the first cycle appended one record and then failed; the record put after
\* its drain was appended by the second cycle
C19_Witness ==
    /\ Len(cycles) = 2 /\ ~cycles[1].put
    /\ cycles[1].seen = 1 /\ cycles[2].seen = 2
    /\ appended = <<1, 2>> /\ put_log = <<1, 2>>

\* the position of the last line terminator at or before position p, 0 if none
C16_LastTerminator(p) ==
    LET nls == {i \in 1..p : source[i].c = "nl"}
    IN  IF nls = {} THEN 0 ELSE CHOOSE i \in nls : \A j \in nls : j <= i

\* a complete line that is no JSON has been read
MalformedLineRead ==
    \E n \in 1..NumLines : LineEnd(n) <= pos /\ ~RecordOfLine(n).ok

\* While the generator is live its buffer is the text read since the last line
\* terminator, which holds no terminator, and the lines yielded are the
\* complete lines read, each once.  A line yielded is always a complete line
\* that was read, and no line is yielded twice.  The generator is finished by
\* close_event or by a line that is no JSON only, not by the end of the file.
C16_BufferIsThePartialLine ==
    /\ gen = "live" =>
           /\ new_line = SubSeq(source, C16_LastTerminator(pos) + 1, pos)
           /\ \A i \in 1..Len(new_line) : new_line[i].c # "nl"
           /\ yielded = [k \in 1..LineNo(source, pos) |-> k]
    /\ \A k \in 1..Len(yielded) : yielded[k] = k /\ LineEnd(k) <= pos
    /\ gen = "dead" => close_event \/ MalformedLineRead

\* a step that yields has read up to the terminator of a line; the buffer with
\* the text read is the whole line, the record put is the record of that line,
\* and the buffer is empty afterwards; a step that leaves text in the buffer
\* yields nothing
C16_YieldsWholeLines ==
    /\ yielded' # yielded =>
           LET n == Last(yielded')
           IN  /\ yielded' = Append(yielded, n)
               /\ pos' = LineEnd(n) /\ source[pos'].c = "nl"
               /\ new_line \o SubSeq(source, pos + 1, pos')
                      = SubSeq(source, LineStart(n), LineEnd(n))
               /\ new_line' = <<>>
               /\ put_log' # put_log =>
                      /\ Last(pub_queue').line = n
                      /\ Last(pub_queue').ts = RecordOfLine(n).ts
                      /\ Last(pub_queue').dur = RecordOfLine(n).dur
    /\ new_line' # <<>> => yielded' = yielded

(* C16: streamer yields whole lines only.  The text of a line that has no    *)
(* terminator yet stays in the buffer and is not yielded; when the rest of   *)
(* the line has been written, the buffer and the text read are yielded as    *)
(* one record, once, and the buffer is empty; reaching the end of the file   *)
(* does not finish the generator.                                            *)
C16_PartialLineIsKeptAndJoined ==
    []C16_BufferIsThePartialLine /\ [][C16_YieldsWholeLines]_vars

\* the first line was yielded and put; streamer has read the second line up to
\* the end of the file, where its terminator is not written yet
C16_Witness ==
    /\ yielded = <<1>> /\ put_log = <<1>> /\ gen = "live"
    /\ pos = avail /\ avail < Len(source)
    /\ new_line # <<>> /\ source[avail + 1].c = "nl"

\* the cycles that ended when close_event was set; a cycle that began after
\* close_event was set is one of them
C20_CyclesAfterStop == {k \in 1..Len(cycles) : cycles[k].stopped}

\* at most one cycle ended after close_event was set, and it is the last one
C20_AtMostOneCycleAfterStop ==
    /\ Cardinality(C20_CyclesAfterStop) <= 1
    /\ \A k \in C20_CyclesAfterStop : k = Len(cycles)
    /\ Cardinality({k \in C20_CyclesAfterStop : cycles[k].put}) <= 1

\* handler goes to sleep from the top of its loop only while close_event is not
\* set, and it wakes up from its sleep whether or not it is set
C20_StopSeenAtTopOnly ==
    /\ (h_pc = "top" /\ h_pc' = "sleep") => ~close_event
    /\ (h_pc = "top" /\ close_event) => h_pc' \in {"top", "done"}
    /\ h_pc \in {"sleep", "drain", "resched"} => h_pc' # "done"

(* C20: handler looks at close_event at the top of its loop only.  Once it   *)
(* is set handler starts no new sleep, and a sleep, drain or computation in  *)
(* progress goes on to the end of its cycle: at most one cycle ends, and at  *)
(* most one message is put on write_queue, after close_event was set.        *)
C20_OneMoreCycleAfterStop == []C20_AtMostOneCycleAfterStop /\ [][C20_StopSeenAtTopOnly]_vars

\* close_event was set before the second cycle ended; handler finished that cycle, put
\* its message, and returned
C20_Witness ==
    /\ Len(cycles) = 2 /\ ~cycles[1].stopped
    /\ cycles[2].stopped /\ cycles[2].put
    /\ h_pc = "done"

(* C12, as stated: the drain is a snapshot.  A record put on pub_queue after *)
(* the drain of a cycle began is not appended to the buffer in that cycle:   *)
(* until the cycle is over, the records appended are among those that had    *)
(* been put when its drain began.                                            *)
C12_DrainIsSnapshot ==
    h_pc \in {"drain", "resched"} => Len(appended) <= drain_from

\* The step that ends the drain finds pub_queue empty: every record put so
\* far, those put since the drain began included, has been appended and is
\* counted in this cycle, and is in the filtered buffer when its age at the
\* cycle's now is less than window.  Outside the drain nothing is appended: a
\* record put after the drain ended waits for the drain of the next cycle.
C12_DrainTakesLateRecords ==
    /\ (h_pc = "drain" /\ h_pc' = "resched") =>
           /\ pub_queue = <<>>
           /\ \A j \in 1..Len(put_log) :
                  \E i \in 1..Last(cycles').seen : appended[i] = put_log[j]
           /\ \A j \in (drain_from + 1)..Len(put_log) :
                  Age(put_log[j], h_now) < window =>
                      \E k \in 1..Len(messages') : messages'[k].line = put_log[j]
    /\ h_pc # "drain" => appended' = appended /\ messages' = messages

(* C12, amended: the drain runs until it finds pub_queue empty.  A record    *)
(* put after the drain began and before the loop found the queue empty is    *)
(* appended in that cycle and, when its age is less than window, is in the   *)
(* buffer the average is taken over; only a record put after the loop found  *)
(* the queue empty is left for the next cycle.                               *)
C12_DrainRunsUntilEmpty == [][C12_DrainTakesLateRecords]_vars

\* no record waited when the drain began; the record put during the drain was
\* appended and is the one the cycle averaged
C12_Witness ==
    /\ h_pc = "resched" /\ drain_from = 0
    /\ Last(cycles).seen = 1 /\ Last(cycles).put
    /\ Last(cycles).msg.average = Num(54)

\* the record of line n makes publisher raise while it computes the age: the
\* line holds no key/value record, or its timestamp is text that is no time
C15_AgeRaises(n) ==
    \/ ~RecordOfLine(n).isdict
    \/ RecordOfLine(n).ts.k = "text"

\* no line that made publisher raise is among the lines put; pub_queue never
\* holds more than its maxsize; publisher waits in a put exactly when it holds
\* a record to put; the generator is live unless close_event is set
C15_FailedRecordsAreNotPut ==
    /\ \A j \in 1..Len(put_log) : ~C15_AgeRaises(put_log[j])
    /\ pub_queue_maxsize > 0 => Len(pub_queue) <= pub_queue_maxsize
    /\ pub_pc = "put" <=> putting # <<>>
    /\ gen = "dead" => close_event \/ MalformedLineRead

\* A step that yields line n treats it as any other line, whatever became of
\* the lines before: when computing its age raises, nothing is put and
\* publisher is back at the top of its loop with the generator live; when the
\* line is fresh it is put, or publisher waits in the put when the queue is
\* full; a line that is not fresh is skipped.  A publisher that waits in a put
\* leaves it with the record put once the queue is not full, or, when timeout
\* seconds have passed on a full queue, with nothing put, and is at the top of
\* its loop in both cases.
C15_PublisherGoesOn ==
    /\ yielded' # yielded =>
           LET n == Last(yielded')
               full == pub_queue_maxsize > 0 /\ Len(pub_queue) >= pub_queue_maxsize
           IN  /\ gen' = "live"
               /\ IF C15_AgeRaises(n) \/ RecordOfLine(n).ts = None \/ Age(n, clock) >= window
                  THEN put_log' = put_log /\ pub_queue' = pub_queue /\ pub_pc' = "top"
                  ELSE IF full
                  THEN /\ put_log' = put_log /\ pub_queue' = pub_queue /\ pub_pc' = "put"
                       /\ putting'[1].item.line = n
                  ELSE put_log' = Append(put_log, n) /\ pub_pc' = "top"
    /\ (pub_pc = "put" /\ pub_pc' # "put") =>
           /\ pub_pc' = "top" /\ gen' = gen /\ putting' = <<>>
           /\ IF Len(pub_queue) >= pub_queue_maxsize
              THEN /\ clock >= putting[1].deadline
                   /\ put_log' = put_log /\ pub_queue' = pub_queue
              ELSE /\ put_log' = Append(put_log, putting[1].item.line)
                   /\ Len(pub_queue') = Len(pub_queue) + 1

(* C15: a failure on one record in publisher is caught.  When the timestamp  *)
(* of a record is text that is no time, when the line is no key/value        *)
(* record, or when the timed put on a full queue times out, the record is    *)
(* dropped and nothing is put for it, and publisher goes round its loop: the *)
(* next line that streamer yields is checked and put as any other.           *)
C15_FailureDropsOneRecord == []C15_FailedRecordsAreNotPut /\ [][C15_PublisherGoesOn]_vars

\* the put of the second line timed out on the full queue and the line was
\* dropped; the third line was put after handler had drained the queue
C15_Witness ==
    /\ yielded = <<1, 2, 3>> /\ put_log = <<1, 3>>
    /\ appended = <<1>> /\ pub_pc = "top" /\ gen = "live"

(* C18: the hand-off queue is bounded.  In the pipeline as main starts it,   *)
(* pub_queue has a capacity, its maxsize, that is a positive number, and     *)
(* the number of records waiting in it never exceeds that capacity.          *)
C18_HandOffQueueIsBounded ==
    pub_queue # <<>> =>
        /\ pub_queue_maxsize > 0
        /\ Len(pub_queue) <= pub_queue_maxsize

\* the seconds of the minute of a time
C17_Seconds(t) == t % 60

\* the initial wake time: with a delay of a minute or more it is the start of
\* the minute that start + delay lies in; with a shorter delay it is start + delay
C17_InitialWakeTime ==
    /\ delay >= 60 =>
           /\ C17_Seconds(first_time) = 0
           /\ first_time <= started + delay
           /\ started + delay < first_time + 60
    /\ delay < 60 => first_time = started + delay

(* C17, as stated: with a delay of a minute or more the cycles are aligned   *)
(* to the minute: the initial wake time is cut to the start of its minute,   *)
(* and every scheduled wake time, the initial one and every later one, has   *)
(* zero seconds; with a shorter delay the initial wake time is start + delay. *)
C17_EveryWakeTimeOnTheMinute ==
    /\ C17_InitialWakeTime
    /\ delay >= 60 => C17_Seconds(next_time) = 0

(* C17, amended: with a delay of a minute or more the initial wake time is   *)
(* cut to the start of its minute; the later wake times are the initial one  *)
(* plus a multiple of delay, and have zero seconds when delay is a whole     *)
(* number of minutes; with a shorter delay the initial wake time is          *)
(* start + delay.                                                            *)
C17_InitialWakeTimeOnTheMinute ==
    /\ C17_InitialWakeTime
    /\ \E q \in 0..horizon : next_time = first_time + q * delay
    /\ (delay >= 60 /\ delay % 60 = 0) => C17_Seconds(next_time) = 0

\* started 45 seconds into a minute with a delay of 60, handler first woke at
\* the start of the next minute, not at its 45th second, and the wake time
\* after the first cycle is a minute later
C17_Witness ==
    /\ delay = 60 /\ started = 45 /\ first_time = 60
    /\ Len(cycles) = 1 /\ cycles[1].now < 105
    /\ h_pc = "top" /\ next_time = 120

=============================================================================
